---- MODULE Spec2Model ----
(***************************************************************************)
(* A model of download-addresses.py: the four Overpass fetchers with their *)
(* retry loops, the per-feature attribute inference of                     *)
(* download_housenumbers, the tail of main (packaging), fill_in_gaps and   *)
(* the address deduplication.                                              *)
(*                                                                         *)
(* Python strings are sequences of one-character strings, so that the      *)
(* regular expression POSTCODE_NOTE_RE is computed and not assumed.        *)
(* None and an absent dictionary key are the sentinel sequences None and   *)
(* Absent.  A polygon is the ring of grid cells it covers, a point is one  *)
(* grid cell, and the empty point shapely.Point() is the cell 0.           *)
(***************************************************************************)
EXTENDS Integers, Sequences, FiniteSets, TLC

\* ------------------------------------------------------------ bounds
\* Number of entries of NUTS_AREAS taken into the model (35 in the source).
NumAreas == 2
\* Transient failures the service may answer to one query.
MaxRetries == 2
\* Elements (relations, features) one fetcher receives over all its queries.
MaxRows == 2
\* Rows of a table handed to fill_in_gaps.
MaxFillRows == 3
\* Rows of a table handed to the address deduplication.
MaxDedupRows == 3

\* ------------------------------------------------------------ values
None == <<"<None>">>
Absent == <<"<absent>">>
EmptyPoint == 0

Wien == <<"W", "i", "e", "n">>
Graz == <<"G", "r", "a", "z">>
MainSt == <<"M", "a", "i", "n", " ", "S", "t">>
PC1010 == <<"1", "0", "1", "0">>
PC1020 == <<"1", "0", "2", "0">>
HN12 == <<"1", "2">>

NUTS_AREAS == [i \in 1..NumAreas |-> i]

WAITING_TIME == 180

Digits == {"0", "1", "2", "3", "4", "5", "6", "7", "8", "9"}

\* re.match of "(?P<post_code>[0-9]{4}) (?P<city>.*)$": four digits and a
\* space at the start; "." matches no newline and "$" matches at the end or
\* before a final newline.
POSTCODE_NOTE_RE_match(s) ==
    LET n == Len(s)
        rest == IF n >= 6 THEN SubSeq(s, 6, n) ELSE <<>>
        m == Len(rest)
        body == IF m > 0 /\ rest[m] = "\n" THEN SubSeq(rest, 1, m - 1) ELSE rest
        ok == /\ n >= 5
              /\ \A i \in 1..4 : s[i] \in Digits
              /\ s[5] = " "
              /\ \A i \in 1..Len(body) : body[i] # "\n"
    IN  [matched |-> ok, city |-> IF ok THEN body ELSE None]

\* The exceptions api.query raises in the model; OverpassBadRequest stands
\* for every exception the retry loops do not name.
Timeout == "OverpassGatewayTimeout"
TooMany == "OverpassTooManyRequests"
BadRequest == "OverpassBadRequest"
QueryExceptions == {Timeout, TooMany, BadRequest}

\* A handler that names only the gateway timeout.
IsTransient_timeout_only(exc) == exc = Timeout

\* The except clause of the four retry loops.
IsTransient(exc) == exc \in {Timeout, TooMany}

\* time.sleep(WAITING_TIME) in the r-th handler run of one query.
SleepSeconds(r) == WAITING_TIME

\* ------------------------------------------------------------ tables
\* The positions of rows that pandas' duplicated(keep="first") leaves.
KeptIdx(keys) == {i \in 1..Len(keys) : \A j \in 1..(i - 1) : keys[j] # keys[i]}

\* The rows at the positions S, in order.
TakeIdx(rows, S) ==
    [k \in 1..Cardinality(S) |->
        rows[CHOOSE i \in S : Cardinality({j \in S : j <= i}) = k]]

\* geopandas.GeoDataFrame(dict of equally long lists): one row per position.
Frame3(cols) ==
    [i \in 1..Len(cols.geometry) |->
        [city |-> cols.city[i], postcode |-> cols.postcode[i],
         geometry |-> cols.geometry[i]]]

Frame2(cols) ==
    [i \in 1..Len(cols.geometry) |->
        [city |-> cols.city[i], geometry |-> cols.geometry[i]]]

\* The cells a ring covers.
Cells(ring) == {ring[i] : i \in 1..Len(ring)}

\* GeoSeries.normalize() on polygons: the canonical form of a ring, which
\* the service may have listed from any of its cells on.
normalize(ring) == SortSeq(ring, LAMBDA a, b : a < b)

\* GeoSeries.normalize() on points: a point has one representation only.
normalize_point(p) == p

\* A table keeps the index labels of its rows (here the 1-based position a
\* row had before drop_duplicates): .loc selects by label.
WithIndex(rows) == [i \in 1..Len(rows) |-> [index |-> i, row |-> rows[i]]]

\* geometry.normalize() and DataFrame.drop_duplicates() over all columns.
FinishIndexed(rows) ==
    LET norm == [i \in 1..Len(rows) |->
                    [rows[i] EXCEPT !.geometry = normalize(@)]]
    IN  TakeIdx(WithIndex(norm), KeptIdx(norm))

\* table.loc[positions]: every position is looked up as a label; a label the
\* index does not hold raises KeyError.
loc(itable, positions) ==
    LET labels == {itable[i].index : i \in 1..Len(itable)}
        hit == {i \in 1..Len(itable) : itable[i].index \in positions}
    IN  IF positions \subseteq labels
        THEN [raised |-> FALSE, error |-> "none",
              rows |-> [k \in 1..Cardinality(hit) |->
                          TakeIdx(itable, hit)[k].row]]
        ELSE [raised |-> TRUE, error |-> "KeyError", rows |-> <<>>]

\* frame.iloc[0] in the place of frame[0]: the first row, IndexError when
\* there is none.
DataFrameGetItem_iloc(rows, columns, key) ==
    IF Len(rows) = 0
    THEN [raised |-> TRUE, error |-> "IndexError", kind |-> "none", rows |-> <<>>]
    ELSE [raised |-> FALSE, error |-> "none", kind |-> "row", rows |-> <<rows[1]>>]

\* frame[key] on a DataFrame: the column labelled key, KeyError when no
\* column has that label.  The integer label 0 of lines 312 and 322 is
\* written "0"; the columns are labelled by strings.
DataFrameGetItem(rows, columns, key) ==
    IF key \in columns
    THEN [raised |-> FALSE, error |-> "none", kind |-> "series", rows |-> rows]
    ELSE [raised |-> TRUE, error |-> "KeyError", kind |-> "none", rows |-> <<>>]

\* obj[field] on what frame[0] gave: a row yields its field (KeyError when
\* it has none of that name); a column Series, labelled by integers, has no
\* string label.
ObjGetItem(obj, field) ==
    IF obj.kind = "row" /\ field \in DOMAIN obj.rows[1]
    THEN [raised |-> FALSE, error |-> "none", value |-> obj.rows[1][field]]
    ELSE [raised |-> TRUE, error |-> "KeyError", value |-> None]

\* sindex.query(geometry, predicate="within"): positions of the rows whose
\* polygon the point is within; the empty point is within nothing.
within_query(itable, point) ==
    {i \in 1..Len(itable) :
        point # EmptyPoint /\ point \in Cells(itable[i].row.geometry)}

\* table.loc[table.sindex.query(point, predicate="within")][0][field]
AreaLookup(itable, columns, point, field) ==
    LET sel == loc(itable, within_query(itable, point))
        item == DataFrameGetItem(sel.rows, columns, "0")
        got == ObjGetItem(item, field)
    IN  IF sel.raised THEN [raised |-> TRUE, error |-> sel.error, value |-> None]
        ELSE IF item.raised
             THEN [raised |-> TRUE, error |-> item.error, value |-> None]
             ELSE got

PostcodeColumns == {"city", "postcode", "geometry"}
MunicipalityColumns == {"city", "geometry"}

\* A value of the addresses dictionary: the list the function started it
\* with, or the scalar an assignment addresses[tag] = ... left there.
ListCol(items) == [isList |-> TRUE, items |-> items]
ScalarCol(v) == [isList |-> FALSE, items |-> <<v>>]

\* One pass of the loop "for tag in [...]" over one feature.  st is
\* [cols, raised, error]; an exception that no handler of the loop catches
\* leaves the columns as they are at that point.
StepTag(st, tags, tag, point, pa, mu) ==
    IF st.raised THEN st
    ELSE
    LET col == st.cols[tag]
        appendNone == [st EXCEPT !.cols[tag] = ListCol(Append(col.items, None))]
        fromPa == AreaLookup(pa, PostcodeColumns, point, tag)
        fromMu == AreaLookup(mu, MunicipalityColumns, point, "name")
    IN  IF ~col.isList
        THEN [st EXCEPT !.raised = TRUE, !.error = "AttributeError"]
        ELSE IF tags[tag] # Absent
        THEN [st EXCEPT !.cols[tag] = ListCol(Append(col.items, tags[tag]))]
        ELSE IF tag \in {"postcode", "city"}
        THEN IF ~fromPa.raised
             THEN [st EXCEPT !.cols[tag] = ScalarCol(fromPa.value)]
             ELSE IF tag = "city"
                  THEN IF ~fromMu.raised
                       THEN [st EXCEPT !.cols[tag] = ScalarCol(fromMu.value)]
                       ELSE appendNone
                  ELSE appendNone
        ELSE appendNone

\* The geometry of a feature: the centre when it has one, else its own
\* coordinates, else the empty point.  A missing attribute is 0.
FeaturePoint(attrs) ==
    IF attrs.center # 0 THEN attrs.center
    ELSE IF attrs.lonlat # 0 THEN attrs.lonlat
    ELSE EmptyPoint

\* The body of the loop over the features of one result.
ProcessFeature(cols, el, pa, mu) ==
    LET point == FeaturePoint(el.attrs)
        s0 == [cols |-> [cols EXCEPT !.geometry =
                            ListCol(Append(cols.geometry.items, point))],
               raised |-> FALSE, error |-> "none"]
        s1 == StepTag(s0, el.tags, "street", point, pa, mu)
        s2 == StepTag(s1, el.tags, "housenumber", point, pa, mu)
        s3 == StepTag(s2, el.tags, "postcode", point, pa, mu)
    IN  StepTag(s3, el.tags, "city", point, pa, mu)


\* ------------------------------------------------------------ the run
VARIABLES
    stage,           \* the fetcher main is in
    status,          \* "running", "done" or "aborted"
    error,           \* the exception that ended the run, or "none"
    area,            \* position of the for loop in NUTS_AREAS
    results,         \* the local results: None, or the elements still to visit
    retries,         \* runs of the except handler for the current query
    waited,          \* seconds slept for the current query
    lastOutcome,     \* what the latest api.query call did
    okQueries,       \* per partition, the queries of this fetcher that returned
    clip_polygon, pa_cols, postcode_areas, mu_cols, municipalities,
    addresses,       \* the dictionary of columns of download_housenumbers
    seen,            \* the features download_housenumbers has visited
    main_addresses,  \* main's local name addresses
    archives,        \* the two output files
    fpc, finput, ftable, ftouch,  \* fill_in_gaps: position, argument, table,
                                  \* pairs of rows whose polygons touch
    dpc, dinput, dtable           \* deduplication: position, argument, table

runVars == <<stage, status, error, area, results, retries, waited, lastOutcome,
             okQueries, clip_polygon, pa_cols, postcode_areas, mu_cols,
             municipalities, addresses, seen, main_addresses, archives>>
fillVars == <<fpc, finput, ftable, ftouch>>
dedupVars == <<dpc, dinput, dtable>>
vars == <<runVars, fillVars, dedupVars>>

NoResults == [none |-> TRUE, elems |-> <<>>]
NoArchive == [state |-> "absent", table |-> <<>>]
Unbound == [bound |-> FALSE, isNone |-> FALSE, table |-> <<>>]

EmptyAddresses ==
    [street |-> ListCol(<<>>), housenumber |-> ListCol(<<>>),
     postcode |-> ListCol(<<>>), city |-> ListCol(<<>>),
     geometry |-> ListCol(<<>>)]

RunInit ==
    /\ stage = "clip"
    /\ status = "running"
    /\ error = "none"
    /\ area = 1
    /\ results = NoResults
    /\ retries = 0
    /\ waited = 0
    /\ lastOutcome = "none"
    /\ okQueries = [k \in 1..NumAreas |-> 0]
    /\ clip_polygon = {}
    /\ pa_cols = [city |-> <<>>, postcode |-> <<>>, geometry |-> <<>>]
    /\ postcode_areas = <<>>
    /\ mu_cols = [city |-> <<>>, geometry |-> <<>>]
    /\ municipalities = <<>>
    /\ addresses = EmptyAddresses
    /\ seen = <<>>
    /\ main_addresses = Unbound
    /\ archives = [addr |-> NoArchive, voronoi |-> NoArchive]

FillIdle == fpc = "idle" /\ finput = <<>> /\ ftable = <<>> /\ ftouch = {}
DedupIdle == dpc = "idle" /\ dinput = <<>> /\ dtable = <<>>

\* What the service may answer.  A boundary relation: its outer ring as
\* cells.  A postal-code relation: tags and polygon.  A municipality: tags
\* and polygon.  An address feature: tags and coordinates.
ClipElements == {[geometry |-> <<1, 2, 3>>]}

Note1010Wien == PC1010 \o <<" ">> \o Wien

\* Postal-code relations: complete; the same ring listed from its other
\* cell on; without tags; with a note the pattern does not match.
PostcodeElements ==
    {[tags |-> [postal_code |-> PC1010, note |-> Note1010Wien], geometry |-> <<1, 2>>],
     [tags |-> [postal_code |-> PC1010, note |-> Note1010Wien], geometry |-> <<2, 1>>],
     [tags |-> [postal_code |-> Absent, note |-> Absent], geometry |-> <<1, 2>>],
     [tags |-> [postal_code |-> PC1010, note |-> Wien], geometry |-> <<1, 2>>]}

MunicipalityElements ==
    {[tags |-> [name |-> n], geometry |-> <<1, 2, 3>>] : n \in {Absent, Wien}}

\* Address features: every combination of a present or absent postcode and
\* city tag with a centre inside the postal-code area, coordinates outside
\* it and inside the municipality, and no coordinates at all.
AddressElements ==
    {[tags |-> [street |-> MainSt, housenumber |-> HN12, postcode |-> p, city |-> c],
      attrs |-> a] :
        p \in {Absent, PC1020}, c \in {Absent, Graz},
        a \in {[center |-> 1, lonlat |-> 0], [center |-> 0, lonlat |-> 3],
               [center |-> 0, lonlat |-> 0]}}

\* The features the run of the whole pipeline is given.
MainAddressElements ==
    {[tags |-> [street |-> MainSt, housenumber |-> HN12, postcode |-> Absent,
                city |-> Absent],
      attrs |-> [center |-> 1, lonlat |-> 0]],
     [tags |-> [street |-> MainSt, housenumber |-> HN12, postcode |-> PC1020,
                city |-> Graz],
      attrs |-> [center |-> 0, lonlat |-> 3]],
     [tags |-> [street |-> MainSt, housenumber |-> HN12, postcode |-> Absent,
                city |-> Absent],
      attrs |-> [center |-> 0, lonlat |-> 0]]}

ElementsOf(s) ==
    CASE s = "clip" -> ClipElements
      [] s = "postcode" -> PostcodeElements
      [] s = "municipalities" -> MunicipalityElements
      [] OTHER -> MainAddressElements

\* Elements the current fetcher has received so far.
Received(s) ==
    CASE s = "clip" -> 0
      [] s = "postcode" -> Len(pa_cols.geometry) + Len(results.elems)
      [] s = "municipalities" -> Len(mu_cols.geometry) + Len(results.elems)
      [] OTHER -> Len(seen) + Len(results.elems)

Payloads(s, elements) ==
    {<<>>} \cup
    (IF Received(s) + 1 <= MaxRows THEN {<<e>> : e \in elements} ELSE {}) \cup
    (IF s # "clip" /\ Received(s) + 2 <= MaxRows
     THEN {<<e, e>> : e \in elements} ELSE {})

EmptyCols == [pa |-> [city |-> <<>>, postcode |-> <<>>, geometry |-> <<>>],
              mu |-> [city |-> <<>>, geometry |-> <<>>],
              ad |-> EmptyAddresses]

\* A retry loop around the whole fetch: a retry starts over.
AfterTransient_restart(a, cols) == [area |-> 1, cols |-> EmptyCols]

\* What a retry does to the loop position and the accumulated columns: the
\* while loop is inside the for loop, so neither changes.
AfterTransient(a, cols) == [area |-> a, cols |-> cols]

\* api.query inside "while results is None: try: ... except (...): sleep".
\* It returns a result, or raises; a transient exception runs the handler
\* and the loop tries again, any other exception leaves the function and
\* main.
QueryWith(elements) ==
    /\ status = "running"
    /\ results.none
    /\ \E outcome \in {"ok"} \cup QueryExceptions :
        /\ lastOutcome' = outcome
        /\ IF outcome = "ok"
           THEN /\ \E p \in Payloads(stage, elements) : results' = [none |-> FALSE, elems |-> p]
                /\ okQueries' = [okQueries EXCEPT ![area] = @ + 1]
                /\ UNCHANGED <<status, error, area, retries, waited, pa_cols,
                               mu_cols, addresses>>
           ELSE IF IsTransient(outcome)
           THEN LET after == AfterTransient(area,
                                 [pa |-> pa_cols, mu |-> mu_cols, ad |-> addresses])
                IN  /\ retries < MaxRetries
                    /\ retries' = retries + 1
                    /\ waited' = waited + SleepSeconds(retries + 1)
                    /\ area' = after.area
                    /\ pa_cols' = after.cols.pa
                    /\ mu_cols' = after.cols.mu
                    /\ addresses' = after.cols.ad
                    /\ UNCHANGED <<status, error, results, okQueries>>
           ELSE /\ status' = "aborted"
                /\ error' = outcome
                /\ UNCHANGED <<area, results, retries, waited, okQueries,
                               pa_cols, mu_cols, addresses>>
    /\ UNCHANGED <<stage, clip_polygon, postcode_areas, municipalities, seen,
                   main_addresses, archives>>
    /\ UNCHANGED <<fillVars, dedupVars>>

Query == QueryWith(ElementsOf(stage))

\* What entering the next fetcher sets.
EnterFetcher(s) ==
    /\ stage' = s
    /\ area' = 1
    /\ results' = NoResults
    /\ retries' = 0
    /\ waited' = 0
    /\ okQueries' = [k \in 1..NumAreas |-> 0]

\* download_clip_polygon after its loop: the union of the outer rings.
clip_build ==
    /\ status = "running"
    /\ stage = "clip"
    /\ ~results.none
    /\ clip_polygon' = UNION {Cells(results.elems[i].geometry) : i \in 1..Len(results.elems)}
    /\ EnterFetcher("postcode")
    /\ UNCHANGED <<status, error, lastOutcome, pa_cols, postcode_areas, mu_cols,
                   municipalities, addresses, seen, main_addresses, archives>>
    /\ UNCHANGED <<fillVars, dedupVars>>

\* The attributes download_postcode_areas reads from one relation.
PostcodeOf(tags) == IF tags.postal_code # Absent THEN tags.postal_code ELSE None

CityOfNote(tags) ==
    IF tags.note = Absent THEN None
    ELSE POSTCODE_NOTE_RE_match(tags.note).city

postcode_element ==
    /\ status = "running"
    /\ stage = "postcode"
    /\ ~results.none
    /\ results.elems # <<>>
    /\ LET el == Head(results.elems)
       IN  pa_cols' = [postcode |-> Append(pa_cols.postcode, PostcodeOf(el.tags)),
                       city |-> Append(pa_cols.city, CityOfNote(el.tags)),
                       geometry |-> Append(pa_cols.geometry, el.geometry)]
    /\ results' = [results EXCEPT !.elems = Tail(@)]
    /\ UNCHANGED <<stage, status, error, area, retries, waited, lastOutcome,
                   okQueries, clip_polygon, postcode_areas, mu_cols,
                   municipalities, addresses, seen, main_addresses, archives>>
    /\ UNCHANGED <<fillVars, dedupVars>>

\* element.tags["name"] of download_municipalities.
NameOf(tags) ==
    IF tags.name # Absent
    THEN [raised |-> FALSE, error |-> "none", value |-> tags.name]
    ELSE [raised |-> TRUE, error |-> "KeyError", value |-> None]

municipalities_element ==
    /\ status = "running"
    /\ stage = "municipalities"
    /\ ~results.none
    /\ results.elems # <<>>
    /\ LET el == Head(results.elems)
           city == NameOf(el.tags)
       IN  IF city.raised
           THEN /\ status' = "aborted"
                /\ error' = city.error
                /\ UNCHANGED <<mu_cols, results>>
           ELSE /\ mu_cols' = [city |-> Append(mu_cols.city, city.value),
                               geometry |-> Append(mu_cols.geometry, el.geometry)]
                /\ results' = [results EXCEPT !.elems = Tail(@)]
                /\ UNCHANGED <<status, error>>
    /\ UNCHANGED <<stage, area, retries, waited, lastOutcome, okQueries,
                   clip_polygon, pa_cols, postcode_areas, municipalities,
                   addresses, seen, main_addresses, archives>>
    /\ UNCHANGED <<fillVars, dedupVars>>

housenumbers_element ==
    /\ status = "running"
    /\ stage = "housenumbers"
    /\ ~results.none
    /\ results.elems # <<>>
    /\ LET el == Head(results.elems)
           r == ProcessFeature(addresses, el, postcode_areas, municipalities)
       IN  /\ addresses' = r.cols
           /\ seen' = Append(seen, el)
           /\ IF r.raised
              THEN /\ status' = "aborted"
                   /\ error' = r.error
                   /\ UNCHANGED results
              ELSE /\ results' = [results EXCEPT !.elems = Tail(@)]
                   /\ UNCHANGED <<status, error>>
    /\ UNCHANGED <<stage, area, retries, waited, lastOutcome, okQueries,
                   clip_polygon, pa_cols, postcode_areas, mu_cols,
                   municipalities, main_addresses, archives>>
    /\ UNCHANGED <<fillVars, dedupVars>>

\* The for loop takes the next entry of NUTS_AREAS and sets results = None.
NextArea ==
    /\ status = "running"
    /\ stage \in {"postcode", "municipalities", "housenumbers"}
    /\ ~results.none
    /\ results.elems = <<>>
    /\ area < NumAreas
    /\ area' = area + 1
    /\ results' = NoResults
    /\ retries' = 0
    /\ waited' = 0
    /\ UNCHANGED <<stage, status, error, lastOutcome, okQueries, clip_polygon,
                   pa_cols, postcode_areas, mu_cols, municipalities, addresses,
                   seen, main_addresses, archives>>
    /\ UNCHANGED <<fillVars, dedupVars>>

LoopOver(s) ==
    /\ status = "running"
    /\ stage = s
    /\ ~results.none
    /\ results.elems = <<>>
    /\ area = NumAreas

postcode_return ==
    /\ LoopOver("postcode")
    /\ postcode_areas' = FinishIndexed(Frame3(pa_cols))
    /\ EnterFetcher("municipalities")
    /\ UNCHANGED <<status, error, lastOutcome, clip_polygon, pa_cols, mu_cols,
                   municipalities, addresses, seen, main_addresses, archives>>
    /\ UNCHANGED <<fillVars, dedupVars>>

municipalities_return ==
    /\ LoopOver("municipalities")
    /\ municipalities' = FinishIndexed(Frame2(mu_cols))
    /\ EnterFetcher("housenumbers")
    /\ UNCHANGED <<status, error, lastOutcome, clip_polygon, pa_cols,
                   postcode_areas, mu_cols, addresses, seen, main_addresses,
                   archives>>
    /\ UNCHANGED <<fillVars, dedupVars>>


\* ------------------------------------------------------------ deduplication
AttrKey(r) == <<r.street, r.housenumber, r.postcode, r.city>>

\* drop_duplicates() without the column list: whole rows are compared.
drop_duplicates_all(rows) == TakeIdx(rows, KeptIdx(rows))

\* drop_duplicates(["geometry"]): the first row of every geometry.
drop_duplicates_geometry(rows) ==
    TakeIdx(rows, KeptIdx([i \in 1..Len(rows) |-> rows[i].geometry]))

\* drop_duplicates(["street", "housenumber", "postcode", "city"]): pandas
\* takes two missing values for equal.
drop_duplicates_attrs(rows) ==
    TakeIdx(rows, KeptIdx([i \in 1..Len(rows) |-> AttrKey(rows[i])]))

\* geopandas.GeoDataFrame(addresses) followed by normalize().
AddressFrame(cols) ==
    [i \in 1..Len(cols.geometry.items) |->
        [street |-> cols.street.items[i],
         housenumber |-> cols.housenumber.items[i],
         postcode |-> cols.postcode.items[i],
         city |-> cols.city.items[i],
         geometry |-> normalize_point(cols.geometry.items[i])]]

\* Whether addresses["postcode"] has the method astype: a list has not, and
\* neither has the str or None that line 313 or 323 may have stored.
HasAstype(col) == FALSE

\* The end of download_housenumbers with a coercion that succeeds and a
\* return of the table.
download_housenumbers_tail_returning(cols) ==
    [raised |-> FALSE, error |-> "none",
     value |-> [bound |-> TRUE, isNone |-> FALSE,
                table |-> drop_duplicates_attrs(
                              drop_duplicates_geometry(AddressFrame(cols)))]]

\* The end of download_housenumbers, from line 331: the coercion, the
\* table, the deduplication, and the end of the function body, which has no
\* return statement.
download_housenumbers_tail(cols) ==
    IF ~HasAstype(cols.postcode)
    THEN [raised |-> TRUE, error |-> "AttributeError", value |-> Unbound]
    ELSE [raised |-> FALSE, error |-> "none",
          value |-> [bound |-> TRUE, isNone |-> TRUE, table |-> <<>>]]

\* Where an exception may end the output stage of main.
FailPoints == {"none", "to_file_1", "open_1", "write_1", "voronoi",
               "to_file_2", "open_2", "write_2"}

\* main from line 418.  zipfile.ZipFile(name, "w") creates or truncates the
\* file when it is opened; leaving the with block closes it.  The
\* tessellation is recorded by the table it is computed from.
main_output(value, arch, fail) ==
    LET opened1 == [arch EXCEPT !.addr = [state |-> "truncated", table |-> <<>>]]
        written1 == [arch EXCEPT !.addr = [state |-> "written", table |-> value.table]]
        opened2 == [written1 EXCEPT !.voronoi = [state |-> "truncated", table |-> <<>>]]
        written2 == [written1 EXCEPT
                        !.voronoi = [state |-> "written", table |-> value.table]]
        abort(e, a) == [status |-> "aborted", error |-> e, archives |-> a]
    IN  IF value.isNone THEN abort("AttributeError", arch)
        ELSE IF fail \in {"to_file_1", "open_1"} THEN abort("OSError", arch)
        ELSE IF fail = "write_1" THEN abort("OSError", opened1)
        ELSE IF fail = "voronoi" THEN abort("ValueError", written1)
        ELSE IF fail \in {"to_file_2", "open_2"} THEN abort("OSError", written1)
        ELSE IF fail = "write_2" THEN abort("OSError", opened2)
        ELSE [status |-> "done", error |-> "none", archives |-> written2]

\* The end of download_housenumbers and, when it returns, the rest of main.
housenumbers_return ==
    /\ LoopOver("housenumbers")
    /\ stage' = "output"
    /\ LET r == download_housenumbers_tail(addresses)
       IN  IF r.raised
           THEN /\ status' = "aborted"
                /\ error' = r.error
                /\ UNCHANGED <<main_addresses, archives>>
           ELSE /\ main_addresses' = r.value
                /\ \E fail \in FailPoints :
                     LET o == main_output(r.value, archives, fail)
                     IN  /\ status' = o.status
                         /\ error' = o.error
                         /\ archives' = o.archives
    /\ UNCHANGED <<area, results, retries, waited, lastOutcome, okQueries,
                   clip_polygon, pa_cols, postcode_areas, mu_cols,
                   municipalities, addresses, seen>>
    /\ UNCHANGED <<fillVars, dedupVars>>

Init == RunInit /\ FillIdle /\ DedupIdle

Next ==
    \/ Query
    \/ clip_build
    \/ postcode_element
    \/ municipalities_element
    \/ housenumbers_element
    \/ NextArea
    \/ postcode_return
    \/ municipalities_return
    \/ housenumbers_return

Spec == Init /\ [][Next]_vars

\* ------------------------------------------------------------ the address fetcher
\* download_housenumbers from its call on, with the tables the two
\* reference fetchers return for the relations listed here.
HousePostcodeInputs ==
    {<<>>,
     <<[tags |-> [postal_code |-> PC1010, note |-> Note1010Wien], geometry |-> <<1, 2>>]>>,
     <<[tags |-> [postal_code |-> Absent, note |-> Absent], geometry |-> <<2, 1>>],
       [tags |-> [postal_code |-> Absent, note |-> Absent], geometry |-> <<1, 2>>],
       [tags |-> [postal_code |-> PC1010, note |-> Note1010Wien], geometry |-> <<1, 2>>]>>}

HouseMunicipalityInputs ==
    {<<>>, <<[tags |-> [name |-> Wien], geometry |-> <<1, 2, 3>>]>>}

PostcodeColsOf(els) ==
    [postcode |-> [i \in 1..Len(els) |-> PostcodeOf(els[i].tags)],
     city |-> [i \in 1..Len(els) |-> CityOfNote(els[i].tags)],
     geometry |-> [i \in 1..Len(els) |-> els[i].geometry]]

MunicipalityColsOf(els) ==
    [city |-> [i \in 1..Len(els) |-> NameOf(els[i].tags).value],
     geometry |-> [i \in 1..Len(els) |-> els[i].geometry]]

InitHouse ==
    /\ FillIdle
    /\ DedupIdle
    /\ stage = "housenumbers"
    /\ status = "running"
    /\ error = "none"
    /\ area = 1
    /\ results = NoResults
    /\ retries = 0
    /\ waited = 0
    /\ lastOutcome = "ok"
    /\ okQueries = [k \in 1..NumAreas |-> 0]
    /\ clip_polygon = {1, 2, 3}
    /\ \E els \in HousePostcodeInputs :
         /\ pa_cols = PostcodeColsOf(els)
         /\ postcode_areas = FinishIndexed(Frame3(PostcodeColsOf(els)))
    /\ \E els \in HouseMunicipalityInputs :
         /\ mu_cols = MunicipalityColsOf(els)
         /\ municipalities = FinishIndexed(Frame2(MunicipalityColsOf(els)))
    /\ addresses = EmptyAddresses
    /\ seen = <<>>
    /\ main_addresses = Unbound
    /\ archives = [addr |-> NoArchive, voronoi |-> NoArchive]

QueryHouse == QueryWith(AddressElements)

NextHouse ==
    \/ QueryHouse
    \/ housenumbers_element
    \/ NextArea
    \/ housenumbers_return

SpecHouse == InitHouse /\ [][NextHouse]_vars


\* ------------------------------------------------------------ fill_in_gaps
\* A cell of a table: missing (None, NaN), one value, or the array that
\* agg(pandas.Series.mode) leaves when the mode is not one value.
NA == [na |-> TRUE, v |-> {}]
Val(x) == [na |-> FALSE, v |-> {x}]
Arr(S) == [na |-> FALSE, v |-> S]
isna(c) == c.na

\* addresses[addresses.city.notnull()].groupby("postcode").first(): per
\* postcode (a missing key forms no group) the city of the first row with a
\* known city.
postcodes_index(t) ==
    {t[i].postcode : i \in {j \in 1..Len(t) : ~isna(t[j].city) /\ ~isna(t[j].postcode)}}

postcodes_city(t, p) ==
    LET rows == {j \in 1..Len(t) : ~isna(t[j].city) /\ t[j].postcode = p}
    IN  t[CHOOSE i \in rows : \A j \in rows : i <= j].city

\* The joined column city_from_postcodes of row i.
city_from_postcodes(t, i) ==
    IF t[i].postcode \in postcodes_index(t)
    THEN postcodes_city(t, t[i].postcode)
    ELSE NA

\* The assignment without the mask city.isna().
Step1Assign_unmasked(city, from) == IF ~isna(from) THEN from ELSE city

\* addresses.loc[city.isna() & city_from_postcodes.notnull(), "city"] = ...
Step1Assign(city, from) == IF isna(city) /\ ~isna(from) THEN from ELSE city

Step1Table(t) ==
    [i \in 1..Len(t) |->
        [t[i] EXCEPT !.city = Step1Assign(t[i].city, city_from_postcodes(t, i))]]

\* Rows whose polygon touches that of row i (sjoin, predicate="touches").
Touching(touch, i, n) == {j \in 1..n : j # i /\ {i, j} \in touch}

\* pandas.Series.mode over the column of the touching rows: the most
\* frequent values, missing ones not counted.
ModeOf(t, touch, i, col) ==
    LET nb == {j \in Touching(touch, i, Len(t)) : ~isna(t[j][col])}
        count(x) == Cardinality({j \in nb : t[j][col] = x})
        values == {t[j][col] : j \in nb}
    IN  {x \in values : \A y \in values : count(y) <= count(x)}

\* What the aggregation leaves in a cell: the mode when there is one, the
\* array of modes otherwise.
AggCell(modes) ==
    IF Cardinality(modes) = 1 THEN CHOOSE x \in modes : TRUE
    ELSE Arr(UNION {x.v : x \in modes})

\* The rows sjoin is given: those with a missing postcode or city.
NeedsFill(t) == {i \in 1..Len(t) : isna(t[i].city) \/ isna(t[i].postcode)}

\* The joined column <col>_right of row i.
RightCell(t, touch, i, col) ==
    IF i \in NeedsFill(t) THEN AggCell(ModeOf(t, touch, i, col)) ELSE NA

\* The assignment without the mask <col>.isna().
Step2Assign_unmasked(cell, right) == right

\* addresses.loc[addresses.<col>.isna(), <col>] = addresses[<col>_right]
Step2Assign(cell, right) == IF isna(cell) THEN right ELSE cell

Step2Table(t, touch) ==
    [i \in 1..Len(t) |->
        [t[i] EXCEPT
            !.postcode = Step2Assign(t[i].postcode, RightCell(t, touch, i, "postcode")),
            !.city = Step2Assign(t[i].city, RightCell(t, touch, i, "city"))]]

\* Whether some aggregated cell is an array: on a column that is not of
\* dtype object the aggregation then raises ValueError.
SomeArray(t, touch) ==
    \E i \in NeedsFill(t) : \E col \in {"postcode", "city"} :
        Cardinality(ModeOf(t, touch, i, col)) # 1

FillRows ==
    {[street |-> Val(MainSt), housenumber |-> Val(HN12), postcode |-> p,
      city |-> c, geometry |-> 0] :
        p \in {NA, Val(PC1010), Val(PC1020)}, c \in {NA, Val(Wien), Val(Graz)}}

\* Tables of n rows; the polygon of a row is named by the row's position.
FillTables(n) ==
    {[i \in 1..n |-> [f[i] EXCEPT !.geometry = i]] : f \in [1..n -> FillRows]}

Pairs(n) == {{i, j} : i \in 1..n, j \in 1..n} \ {{i} : i \in 1..n}

InitFill ==
    /\ RunInit
    /\ DedupIdle
    /\ fpc = "start"
    /\ \E n \in 0..MaxFillRows :
        /\ finput \in FillTables(n)
        /\ ftouch \in SUBSET Pairs(n)
    /\ ftable = finput

\* Step 1 of fill_in_gaps, with the column reset that follows it.
fill_step1 ==
    /\ fpc = "start"
    /\ ftable' = Step1Table(ftable)
    /\ fpc' = "step1"
    /\ UNCHANGED <<finput, ftouch>>
    /\ UNCHANGED <<runVars, dedupVars>>

\* Step 2 of fill_in_gaps up to the return.
fill_step2 ==
    /\ fpc = "step1"
    /\ \E raises \in {FALSE, SomeArray(ftable, ftouch)} :
        IF raises
        THEN fpc' = "raised" /\ UNCHANGED ftable
        ELSE fpc' = "returned" /\ ftable' = Step2Table(ftable, ftouch)
    /\ UNCHANGED <<finput, ftouch>>
    /\ UNCHANGED <<runVars, dedupVars>>

NextFill == fill_step1 \/ fill_step2

SpecFill == InitFill /\ [][NextFill]_vars

\* ------------------------------------------------------------ deduplication
DedupRows ==
    {[street |-> s, housenumber |-> HN12, postcode |-> p, city |-> c,
      geometry |-> g] :
        s \in {None, MainSt}, p \in {None, PC1010}, c \in {None, Wien},
        g \in {EmptyPoint, 1, 2}}

InitDedup ==
    /\ RunInit
    /\ FillIdle
    /\ dpc = "geometry1"
    /\ \E n \in 0..MaxDedupRows : dinput \in [1..n -> DedupRows]
    /\ dtable = dinput

AfterGeometry(pos) == IF pos = "geometry1" THEN "attrs1" ELSE "attrs2"
AfterAttrs(pos) == IF pos = "attrs1" THEN "geometry2" ELSE "end"

\* addresses.drop_duplicates(["geometry"]), a first and a second time.
dedup_geometry ==
    /\ dpc \in {"geometry1", "geometry2"}
    /\ dtable' = drop_duplicates_geometry(dtable)
    /\ dpc' = AfterGeometry(dpc)
    /\ UNCHANGED dinput
    /\ UNCHANGED <<runVars, fillVars>>

\* addresses.drop_duplicates(["street", "housenumber", "postcode", "city"])
dedup_attrs ==
    /\ dpc \in {"attrs1", "attrs2"}
    /\ dtable' = drop_duplicates_attrs(dtable)
    /\ dpc' = AfterAttrs(dpc)
    /\ UNCHANGED dinput
    /\ UNCHANGED <<runVars, fillVars>>

NextDedup == dedup_geometry \/ dedup_attrs

SpecDedup == InitDedup /\ [][NextDedup]_vars


\* ------------------------------------------------------------ properties
TransientNames == {"OverpassGatewayTimeout", "OverpassTooManyRequests"}
Partitioned == {"postcode", "municipalities", "housenumbers"}

\* C1: a query that raises a gateway timeout or too-many-requests is never
\* surfaced: the handler sleeps WAITING_TIME, every time the same, and the
\* same query is issued again; the loop is left only by a result or by
\* another exception, which ends the run; without a result the run never
\* moves to another query.
C1_RetryForever ==
    /\ [](error \notin TransientNames)
    /\ [](waited = WAITING_TIME * retries)
    /\ [][(status = "running" /\ results.none /\ lastOutcome' \in TransientNames)
            => /\ status' = "running"
               /\ error' = "none"
               /\ stage' = stage
               /\ area' = area
               /\ results' = results
               /\ retries' = retries + 1
               /\ waited' = waited + WAITING_TIME]_vars
    /\ [][(results.none /\ ~results'.none) => lastOutcome' = "ok"]_vars
    /\ [][(status = "running" /\ results.none /\ status' = "aborted")
            => /\ lastOutcome' \notin TransientNames \cup {"ok"}
               /\ error' = lastOutcome']_vars
    /\ [][(stage' # stage \/ area' # area) => ~results.none]_vars

\* A query of the address fetcher that failed transiently twice and then
\* returned.
C1_Witness ==
    /\ stage = "housenumbers"
    /\ status = "running"
    /\ ~results.none
    /\ retries = 2
    /\ waited = 2 * WAITING_TIME

\* C2: a run that has ended either completed with both archives written or
\* ended with an error and created or overwrote neither archive.
C2_AllOrNothing ==
    status # "running" =>
        \/ /\ status = "done"
           /\ archives.addr.state = "written"
           /\ archives.voronoi.state = "written"
        \/ /\ status = "aborted"
           /\ archives.addr.state = "absent"
           /\ archives.voronoi.state = "absent"

\* A run whose queries all returned and that ended in the output stage.
C2_Witness ==
    /\ stage = "output"
    /\ status = "aborted"
    /\ Len(seen) >= 1
    /\ archives.addr.state = "absent"
    /\ archives.voronoi.state = "absent"

\* C3: a feature without the postcode or city tag gets the field from the
\* postal-code area its point is within, a missing city else from the
\* municipality it is within, and else a missing value.
C3_Claim ==
    \A i \in 1..Len(seen) : \A tag \in {"postcode", "city"} :
        LET point == FeaturePoint(seen[i].attrs)
            pa == within_query(postcode_areas, point)
            mu == within_query(municipalities, point)
            expected ==
                IF pa # {}
                THEN postcode_areas[CHOOSE k \in pa : \A m \in pa : k <= m].row[tag]
                ELSE IF tag = "city" /\ mu # {}
                THEN municipalities[CHOOSE k \in mu : \A m \in mu : k <= m].row.city
                ELSE None
        IN  seen[i].tags[tag] = Absent =>
                /\ addresses[tag].isList
                /\ Len(addresses[tag].items) >= i
                /\ addresses[tag].items[i] = expected

\* C4: in the two reference-area fetchers a relation without its
\* identifying tag never ends the fetch.
C4_Claim ==
    ~(/\ stage \in {"postcode", "municipalities"}
      /\ status = "aborted"
      /\ error = "KeyError")

\* C5 as claimed: after step 1 the rows of one postcode carry at most one
\* city, whatever the input.
C5_Claim ==
    fpc = "step1" =>
        \A i \in 1..Len(ftable) : \A j \in 1..Len(ftable) :
            (/\ ~ftable[i].postcode.na
             /\ ftable[i].postcode = ftable[j].postcode
             /\ ~ftable[i].city.na
             /\ ~ftable[j].city.na)
            => ftable[i].city = ftable[j].city

\* C5 as amended: step 1 leaves every known city and every other field as
\* it is; a city it fills in is that of the first row of the same postcode
\* with a known city, so the cities filled in for one postcode are one
\* value; a city stays missing only where the postcode is missing or has no
\* known city.  Hence the rows of one postcode carry at most one city after
\* the pass when they carried at most one known city before it.
C5_Amended ==
    fpc = "step1" =>
        LET n == Len(finput)
            known(k, p) == /\ ~finput[k].city.na
                           /\ ~p.na
                           /\ finput[k].postcode = p
            single(t) ==
                \A i \in 1..Len(t) : \A j \in 1..Len(t) :
                    (/\ ~t[i].postcode.na
                     /\ t[i].postcode = t[j].postcode
                     /\ ~t[i].city.na
                     /\ ~t[j].city.na)
                    => t[i].city = t[j].city
        IN  /\ Len(ftable) = n
            /\ \A i \in 1..n :
                /\ ftable[i].street = finput[i].street
                /\ ftable[i].housenumber = finput[i].housenumber
                /\ ftable[i].postcode = finput[i].postcode
                /\ ftable[i].geometry = finput[i].geometry
                /\ ~finput[i].city.na => ftable[i].city = finput[i].city
                /\ (finput[i].city.na /\ ~ftable[i].city.na) =>
                       \E k \in 1..n :
                           /\ known(k, finput[i].postcode)
                           /\ \A m \in 1..(k - 1) : ~known(m, finput[i].postcode)
                           /\ ftable[i].city = finput[k].city
                /\ ftable[i].city.na =>
                       \A k \in 1..n : ~known(k, finput[i].postcode)
            /\ single(finput) => single(ftable)

\* Step 1 filled a city in a table in which one postcode carries two
\* different known cities.
C5_Witness ==
    /\ fpc = "step1"
    /\ \E i \in 1..Len(finput) : finput[i].city.na /\ ~ftable[i].city.na
    /\ \E j \in 1..Len(finput) : \E k \in 1..Len(finput) :
        /\ ~finput[j].postcode.na
        /\ finput[j].postcode = finput[k].postcode
        /\ ~finput[j].city.na
        /\ ~finput[k].city.na
        /\ finput[j].city # finput[k].city

\* C6: step 2 changes no field that is not missing: a known postcode or
\* city, and the street, house number and geometry of every row, are the
\* same after it; a missing field that receives one value receives a most
\* frequent value among the rows whose polygon touches the row's.
C6_Frame ==
    [][fpc = "step1" =>
        IF fpc' = "returned"
        THEN /\ Len(ftable') = Len(ftable)
             /\ \A i \in 1..Len(ftable) :
                 /\ ftable'[i].street = ftable[i].street
                 /\ ftable'[i].housenumber = ftable[i].housenumber
                 /\ ftable'[i].geometry = ftable[i].geometry
                 /\ \A col \in {"postcode", "city"} :
                     LET old == ftable[i][col]
                         new == ftable'[i][col]
                         nb == {j \in 1..Len(ftable) :
                                   j # i /\ {i, j} \in ftouch /\ ~ftable[j][col].na}
                         count(c) == Cardinality({j \in nb : ftable[j][col] = c})
                     IN  /\ ~old.na => new = old
                         /\ (old.na /\ ~new.na /\ Cardinality(new.v) = 1) =>
                                /\ count(new) >= 1
                                /\ \A j \in nb : count(ftable[j][col]) <= count(new)
        ELSE ftable' = ftable]_vars

\* Step 2 gave a missing postcode one value and left a known city alone.
C6_Witness ==
    /\ fpc = "returned"
    /\ \E i \in 1..Len(ftable) :
        /\ finput[i].postcode.na
        /\ ~ftable[i].postcode.na
        /\ Cardinality(ftable[i].postcode.v) = 1
    /\ \E j \in 1..Len(ftable) :
        /\ ~finput[j].city.na
        /\ ftable[j].city = finput[j].city

\* C7: the deduplication applied to its own output removes no row; and of
\* two rows with one geometry and different attributes the geometry step
\* keeps exactly one.
C7_Idempotent ==
    /\ [][(dpc \in {"geometry2", "attrs2"}) => dtable' = dtable]_vars
    /\ [][(/\ dpc = "geometry1"
           /\ Len(dtable) = 2
           /\ dtable[1].geometry = dtable[2].geometry
           /\ \/ dtable[1].street # dtable[2].street
              \/ dtable[1].postcode # dtable[2].postcode
              \/ dtable[1].city # dtable[2].city)
            => Len(dtable') = 1]_vars

\* Two rows with one geometry and different attributes went through the
\* deduplication twice and one row is left.
C7_Witness ==
    /\ dpc = "end"
    /\ Len(dinput) = 2
    /\ dinput[1].geometry = dinput[2].geometry
    /\ dinput[1].city # dinput[2].city
    /\ Len(dtable) = 1

\* C8: the partitions are queried in the order of NUTS_AREAS; a transient
\* failure repeats only the query of the current partition and leaves the
\* accumulated rows as they are; no partition is queried again once its
\* query returned; when a fetcher is left, every partition has had exactly
\* one query that returned.
C8_PerQueryRetry ==
    /\ [][retries' = retries + 1 =>
            /\ area' = area
            /\ pa_cols' = pa_cols
            /\ mu_cols' = mu_cols
            /\ addresses' = addresses
            /\ postcode_areas' = postcode_areas
            /\ municipalities' = municipalities
            /\ okQueries' = okQueries]_vars
    /\ [][stage' = stage => area' \in {area, area + 1}]_vars
    /\ [](stage \in Partitioned =>
            \A k \in 1..NumAreas :
                okQueries[k] = IF k < area \/ (k = area /\ ~results.none)
                               THEN 1 ELSE 0)
    /\ [][(stage \in Partitioned /\ stage' # stage) =>
            \A k \in 1..NumAreas : okQueries[k] = 1]_vars

\* The query of the second partition failed transiently after the first
\* partition had contributed a row.
C8_Witness ==
    /\ stage = "housenumbers"
    /\ area = 2
    /\ results.none
    /\ retries >= 1
    /\ lastOutcome \in TransientNames
    /\ Len(seen) >= 1

\* C9: what main holds as addresses once download_housenumbers is over is
\* the deduplicated table of the features fetched.
C9_Claim ==
    stage = "output" =>
        /\ main_addresses.bound
        /\ ~main_addresses.isNone
        /\ main_addresses.table =
               drop_duplicates_attrs(drop_duplicates_geometry(AddressFrame(addresses)))

\* C10: after every feature the five columns are lists as long as the
\* number of features visited.
C10_ColumnsAligned ==
    \A tag \in {"street", "housenumber", "postcode", "city", "geometry"} :
        /\ addresses[tag].isList
        /\ Len(addresses[tag].items) = Len(seen)

\* Two features were visited, one of them without postcode and city tags
\* and with its point within a postal-code area and a municipality.
C10_Witness ==
    /\ Len(seen) = 2
    /\ \E i \in 1..Len(seen) :
        /\ seen[i].tags.postcode = Absent
        /\ seen[i].tags.city = Absent
        /\ within_query(postcode_areas, FeaturePoint(seen[i].attrs)) # {}
        /\ within_query(municipalities, FeaturePoint(seen[i].attrs)) # {}

====
